---------------------------- MODULE Spec2Model ----------------------------
(***************************************************************************)
(* The underwriting calculation engine of AgenticLoanOrigination: the      *)
(* lending parameters of src/config/settings.py and the four tools of      *)
(* src/tools (credit_check, dti_calculator, risk_scoring, loan_pricing).   *)
(*                                                                         *)
(* Number representation.  The tools compute on Python floats; the model   *)
(* computes the same expressions exactly, on integers and fractions:       *)
(*   - ratios given as decimals (dti_ratio, MAX_DTI_RATIO) are integers in  *)
(*     units of 1/10000 (0.43 is 4300);                                    *)
(*   - interest rates are integers in eighths of a percent (7.5 % is 60);  *)
(*     every rate constant of the program is a multiple of 0.5 and every   *)
(*     multiple of 1/8 is exact in binary floating point; a reported rate  *)
(*     is in units of 1/100 percent after round(x, 2);                     *)
(*   - money given to a tool is an integer number of dollars, money        *)
(*     reported after round(x, 2) an integer number of cents;              *)
(*   - years_employed is an integer number of tenths of a year;            *)
(*   - a quotient the code keeps unrounded is a fraction [num, den] with   *)
(*     den > 0, compared by cross multiplication.                          *)
(* round(x, 2) is Python's: to the nearest, ties to the even neighbour.    *)
(* Where the exact amount is a tie the floating-point error decides which  *)
(* neighbour the program reports; the explored rates and amounts are       *)
(* chosen so that no reported amount is such a tie.                        *)
(* The json.dumps of a result dict is the record it serialises.            *)
(***************************************************************************)
EXTENDS Integers, Sequences, FiniteSets, TLC

VARIABLES
    pc,                  \* "import" | "import_error" | "idle" | "returned" | "raised"
    MIN_CREDIT_SCORE,    \* settings.py:22
    MAX_DTI_RATIO,       \* settings.py:23, units of 1/10000
    MIN_INCOME,          \* settings.py:24, dollars
    BASE_INTEREST_RATE,  \* settings.py:25, eighths of a percent
    call,                \* the tool invocation being served: name and arguments
    result,              \* what that invocation returned (or the exception raised)
    earlier,             \* an earlier invocation and its output, as its caller kept them
    running,             \* the crew's tasks being executed
    completed,           \* the crew's tasks that have finished, in the order they did
    tool_uses,           \* <<task, tool>>: the task's agent has invoked the tool
    financials,          \* a LoanApplication's financials (loan_application.py:71)
    debt_to_income_ratio,  \* its calculated field (loan_application.py:74)
    dti_returned         \* what calculate_dti returned, until the fields change

vars ==
    <<pc, MIN_CREDIT_SCORE, MAX_DTI_RATIO, MIN_INCOME, BASE_INTEREST_RATE, call, result,
      earlier, running, completed, tool_uses, financials, debt_to_income_ratio,
      dti_returned>>

crew == <<running, completed, tool_uses>>

application == <<financials, debt_to_income_ratio, dti_returned>>

settings == <<MIN_CREDIT_SCORE, MAX_DTI_RATIO, MIN_INCOME, BASE_INTEREST_RATE>>

(***************************************************************************)
(* Bounds of the explored inputs.                                          *)
(***************************************************************************)
MaxBankruptcies == 5
MaxLatePayments == 3

(***************************************************************************)
(* Arithmetic helpers: Python's min, max, and round-half-even of n/d.      *)
(***************************************************************************)
Min(a, b) == IF a <= b THEN a ELSE b

Max(a, b) == IF a >= b THEN a ELSE b

Abs(x) == IF x < 0 THEN -x ELSE x

\* floor of n/d for d > 0 (TLA+'s \div is the floor for a positive divisor)
FloorDiv(n, d) == n \div d

\* round(n/d) to an integer, ties to even; d > 0
RoundHalfEven(n, d) ==
    LET q == FloorDiv(n, d)
        twice == 2 * (n - q * d)
    IN  IF twice < d THEN q
        ELSE IF twice > d THEN q + 1
        ELSE IF q % 2 = 0 THEN q ELSE q + 1

\* a fraction num/den, den > 0
Frac(n, d) == [num |-> n, den |-> d]

FracLeq(a, b) == a.num * b.den <= b.num * a.den

(***************************************************************************)
(* settings.py: the lending parameters are read from the environment when  *)
(* the module is imported.  An environment variable is unset, holds a      *)
(* numeral, or holds text that int()/float() cannot parse.                 *)
(***************************************************************************)
Unset == [kind |-> "unset", value |-> 0]

Numeral(v) == [kind |-> "numeral", value |-> v]

Text == [kind |-> "text", value |-> 0]

\* os.getenv(name, default) followed by int(...) or float(...)
getenv(e, default) == IF e.kind = "unset" THEN default ELSE e.value

Parses(e) == e.kind # "text"

NoEnvironment ==
    [ MIN_CREDIT_SCORE |-> Unset, MAX_DTI_RATIO |-> Unset, MIN_INCOME |-> Unset,
      BASE_INTEREST_RATE |-> Unset ]

\* the environments explored: nothing set (the defaults); a stricter policy
\* (680, 0.36, 6.5 %); one negative parameter (-1, -0.1, -1.0 %); one
\* parameter that is no numeral
Environments ==
    { NoEnvironment,
      [ MIN_CREDIT_SCORE |-> Numeral(680), MAX_DTI_RATIO |-> Numeral(3600),
        MIN_INCOME |-> Unset, BASE_INTEREST_RATE |-> Numeral(52) ],
      [NoEnvironment EXCEPT !.MIN_CREDIT_SCORE = Numeral(-1)],
      [NoEnvironment EXCEPT !.MAX_DTI_RATIO = Numeral(-1000)],
      [NoEnvironment EXCEPT !.BASE_INTEREST_RATE = Numeral(-8)],
      [NoEnvironment EXCEPT !.MIN_CREDIT_SCORE = Text],
      [NoEnvironment EXCEPT !.MAX_DTI_RATIO = Text],
      [NoEnvironment EXCEPT !.MIN_INCOME = Text],
      [NoEnvironment EXCEPT !.BASE_INTEREST_RATE = Text] }

Unbound == "unbound"

LoadSettings ==
    /\ pc = "import"
    /\ \E env \in Environments :
        IF /\ Parses(env.MIN_CREDIT_SCORE)
           /\ Parses(env.MAX_DTI_RATIO)
           /\ Parses(env.MIN_INCOME)
           /\ Parses(env.BASE_INTEREST_RATE)
        THEN /\ pc' = "idle"
             /\ MIN_CREDIT_SCORE' = getenv(env.MIN_CREDIT_SCORE, 620)
             /\ MAX_DTI_RATIO' = getenv(env.MAX_DTI_RATIO, 4300)
             /\ MIN_INCOME' = getenv(env.MIN_INCOME, 30000)
             /\ BASE_INTEREST_RATE' = getenv(env.BASE_INTEREST_RATE, 60)
        ELSE \* ValueError out of int()/float(): the import fails
             /\ pc' = "import_error"
             /\ UNCHANGED settings
    /\ UNCHANGED <<call, result, earlier, crew, application>>

(***************************************************************************)
(* CreditCheckTool (application_tools.py)                                  *)
(***************************************************************************)
\* the tiers with the boundaries exclusive on the lower side
credit_tier_exclusive(score) ==
    IF score > 750 THEN "EXCELLENT"
    ELSE IF score > 700 THEN "GOOD"
    ELSE IF score > 650 THEN "FAIR"
    ELSE IF score > 620 THEN "POOR"
    ELSE "SUBPRIME"

get_credit_tier(score) ==
    IF score >= 750 THEN "EXCELLENT"
    ELSE IF score >= 700 THEN "GOOD"
    ELSE IF score >= 650 THEN "FAIR"
    ELSE IF score >= 620 THEN "POOR"
    ELSE "SUBPRIME"

\* a list that still holds the risk factors of the earlier call
list_of_earlier_call ==
    IF "risk_factors" \in DOMAIN earlier.result THEN earlier.result.risk_factors ELSE <<>>

\* the [] each list of the evaluation starts from
new_list == <<>>

CreditCheckTool_run(credit_score, bankruptcies, late_payments) ==
    LET pos1 == IF credit_score >= 750 THEN <<"Excellent credit score">>
                ELSE IF credit_score >= 700 THEN <<"Good credit score">>
                ELSE <<>>
        risk1 == IF credit_score >= 700 THEN <<>>
                 ELSE IF credit_score >= 650 THEN <<"Fair credit score - higher risk">>
                 ELSE <<"Poor credit score - high risk">>
        risk2 == IF bankruptcies > 0
                 THEN <<ToString(bankruptcies) \o " bankruptcy(ies) on record">>
                 ELSE <<>>
        pos2 == IF bankruptcies > 0 THEN <<>> ELSE <<"No bankruptcies">>
        risk3 == IF late_payments > 2
                 THEN <<ToString(late_payments) \o " late payments in last year">>
                 ELSE <<>>
        pos3 == IF late_payments > 2 THEN <<>>
                ELSE IF late_payments = 0 THEN <<"Perfect payment history">>
                ELSE <<>>
    IN  [ credit_score     |-> credit_score,
          meets_minimum    |-> credit_score >= MIN_CREDIT_SCORE,
          credit_tier      |-> get_credit_tier(credit_score),
          risk_factors     |-> new_list \o risk1 \o risk2 \o risk3,
          positive_factors |-> new_list \o pos1 \o pos2 \o pos3 ]

(***************************************************************************)
(* DTICalculatorTool (application_tools.py)                                *)
(***************************************************************************)
\* dti is a fraction; the thresholds are the literals 0.20, 0.35, 0.43
assess_dti(dti) ==
    IF FracLeq(dti, Frac(20, 100)) THEN "Excellent - very low debt burden"
    ELSE IF FracLeq(dti, Frac(35, 100)) THEN "Good - manageable debt level"
    ELSE IF FracLeq(dti, Frac(43, 100)) THEN "Acceptable - at upper limit"
    ELSE "Too high - exceeds maximum threshold"

\* the check made on the reported percentage round(proposed_dti * 100, 2)
passes_on_reported_percentage(proposed_dti) ==
    RoundHalfEven(10000 * proposed_dti.num, proposed_dti.den) <= MAX_DTI_RATIO

\* proposed_dti <= MAX_DTI_RATIO, on the unrounded quotient
passes_dti_check(proposed_dti) == FracLeq(proposed_dti, Frac(MAX_DTI_RATIO, 10000))

\* the unrounded current_dti of DTICalculatorTool._run
current_dti(annual_income, monthly_debt_payments) ==
    LET monthly_income == Frac(annual_income, 12)
    IN  IF monthly_income.num > 0
        THEN Frac(12 * monthly_debt_payments, annual_income)
        ELSE Frac(0, 1)

DTICalculatorTool_run(annual_income, monthly_debt_payments, proposed_loan_payment) ==
    LET \* monthly_income = annual_income / 12; it is > 0 iff annual_income > 0
        monthly_income == Frac(annual_income, 12)
        \* x / monthly_income = 12 x / annual_income
        current == current_dti(annual_income, monthly_debt_payments)
        proposed_dti == IF monthly_income.num > 0
                        THEN Frac(12 * (monthly_debt_payments + proposed_loan_payment),
                                  annual_income)
                        ELSE Frac(0, 1)
    IN  [ monthly_income       |-> RoundHalfEven(100 * annual_income, 12),
          current_monthly_debt |-> monthly_debt_payments,
          proposed_payment     |-> proposed_loan_payment,
          current_dti          |-> RoundHalfEven(10000 * current.num, current.den),
          proposed_dti         |-> RoundHalfEven(10000 * proposed_dti.num, proposed_dti.den),
          max_allowed_dti      |-> MAX_DTI_RATIO,
          passes_dti_check     |-> passes_dti_check(proposed_dti),
          dti_assessment       |-> assess_dti(proposed_dti) ]

(***************************************************************************)
(* RiskScoringTool (underwriting_tools.py)                                 *)
(***************************************************************************)
\* the credit risk without its highest band
score_credit_without_top_band(score) ==
    IF score >= 750 THEN 5
    ELSE IF score >= 700 THEN 10
    ELSE IF score >= 650 THEN 18
    ELSE 23

score_credit(score) ==
    IF score >= 750 THEN 5
    ELSE IF score >= 700 THEN 10
    ELSE IF score >= 650 THEN 18
    ELSE IF score >= 620 THEN 23
    ELSE 25

\* dti in units of 1/10000
score_dti(dti) ==
    IF dti <= 2000 THEN 5
    ELSE IF dti <= 3000 THEN 10
    ELSE IF dti <= 3600 THEN 15
    ELSE IF dti <= 4300 THEN 20
    ELSE 25

score_income(income, loan_amount) ==
    LET ratio == IF income > 0 THEN Frac(loan_amount, income) ELSE Frac(999, 1)
    IN  IF FracLeq(ratio, Frac(25, 100)) THEN 5
        ELSE IF FracLeq(ratio, Frac(50, 100)) THEN 10
        ELSE IF FracLeq(ratio, Frac(75, 100)) THEN 15
        ELSE IF FracLeq(ratio, Frac(1, 1)) THEN 20
        ELSE 25

\* years in tenths of a year
score_employment(years) ==
    IF years >= 50 THEN 5
    ELSE IF years >= 20 THEN 10
    ELSE IF years >= 10 THEN 18
    ELSE 25

\* the bands with exclusive upper bounds
risk_level_exclusive(score) ==
    IF score < 25 THEN "LOW"
    ELSE IF score < 50 THEN "MODERATE"
    ELSE IF score < 75 THEN "HIGH"
    ELSE "VERY_HIGH"

get_risk_level(score) ==
    IF score <= 25 THEN "LOW"
    ELSE IF score <= 50 THEN "MODERATE"
    ELSE IF score <= 75 THEN "HIGH"
    ELSE "VERY_HIGH"

\* the recommendation chosen from the total score before the policy checks
recommendation_score_first(risk_score, credit_score, dti) ==
    IF risk_score <= 35 THEN "APPROVE - Strong application"
    ELSE IF credit_score < MIN_CREDIT_SCORE THEN "DENY - Credit score below minimum"
    ELSE IF dti > MAX_DTI_RATIO THEN "DENY - DTI exceeds maximum"
    ELSE IF risk_score <= 55 THEN "APPROVE WITH CONDITIONS"
    ELSE IF risk_score <= 75 THEN "REFER TO SENIOR UNDERWRITER"
    ELSE "DENY - High risk"

get_recommendation(risk_score, credit_score, dti) ==
    IF credit_score < MIN_CREDIT_SCORE THEN "DENY - Credit score below minimum"
    ELSE IF dti > MAX_DTI_RATIO THEN "DENY - DTI exceeds maximum"
    ELSE IF risk_score <= 35 THEN "APPROVE - Strong application"
    ELSE IF risk_score <= 55 THEN "APPROVE WITH CONDITIONS"
    ELSE IF risk_score <= 75 THEN "REFER TO SENIOR UNDERWRITER"
    ELSE "DENY - High risk"

\* the likelihood with its lowest band starting above 80
approval_likelihood_wider_low_band(risk_score) ==
    IF risk_score <= 30 THEN "Very High (90%+)"
    ELSE IF risk_score <= 45 THEN "High (70-89%)"
    ELSE IF risk_score <= 60 THEN "Moderate (50-69%)"
    ELSE IF risk_score <= 80 THEN "Low (25-49%)"
    ELSE "Very Low (<25%)"

get_approval_likelihood(risk_score) ==
    IF risk_score <= 30 THEN "Very High (90%+)"
    ELSE IF risk_score <= 45 THEN "High (70-89%)"
    ELSE IF risk_score <= 60 THEN "Moderate (50-69%)"
    ELSE IF risk_score <= 75 THEN "Low (25-49%)"
    ELSE "Very Low (<25%)"

\* the penalty without its cap
uncapped_penalty(bankruptcies) == bankruptcies * 15

bankruptcy_penalty(bankruptcies) == Min(bankruptcies * 15, 30)

\* the sum of the components without the clamp
unclamped_risk(credit_risk, dti_risk, income_risk, employment_risk, penalty) ==
    credit_risk + dti_risk + income_risk + employment_risk + penalty

total_risk(credit_risk, dti_risk, income_risk, employment_risk, penalty) ==
    Min(credit_risk + dti_risk + income_risk + employment_risk + penalty, 100)

\* every component is a Python int, which round(x, 1) returns unchanged
RiskScoringTool_run(credit_score, dti_ratio, annual_income, years_employed, bankruptcies, loan_amount) ==
    LET credit_risk == score_credit(credit_score)
        dti_risk == score_dti(dti_ratio)
        income_risk == score_income(annual_income, loan_amount)
        employment_risk == score_employment(years_employed)
        penalty == bankruptcy_penalty(bankruptcies)
        total == total_risk(credit_risk, dti_risk, income_risk, employment_risk, penalty)
    IN  [ total_risk_score    |-> total,
          risk_level          |-> get_risk_level(total),
          components          |-> [ credit_risk        |-> credit_risk,
                                    dti_risk           |-> dti_risk,
                                    income_risk        |-> income_risk,
                                    employment_risk    |-> employment_risk,
                                    bankruptcy_penalty |-> penalty ],
          recommendation      |-> get_recommendation(total, credit_score, dti_ratio),
          approval_likelihood |-> get_approval_likelihood(total) ]

(***************************************************************************)
(* Exact natural numbers of any size, for (1 + monthly_rate) ** term_months.*)
(* A number is the sequence of its base-10000 digits, least significant    *)
(* first, without leading zero digits; zero is the empty sequence.  The    *)
(* digit-by-digit operations split their range in halves, which keeps the  *)
(* evaluation shallow.                                                     *)
(***************************************************************************)
RECURSIVE BigStrip(_)
BigStrip(a) ==
    IF a = <<>> THEN <<>>
    ELSE IF a[Len(a)] = 0 THEN BigStrip(SubSeq(a, 1, Len(a) - 1))
    ELSE a

RECURSIVE BigFromInt(_)
BigFromInt(n) == IF n = 0 THEN <<>> ELSE <<n % 10000>> \o BigFromInt(n \div 10000)

\* digits lo..hi of a * m + c: [d: the digits, c: the carry out]
RECURSIVE BigMulRange(_, _, _, _, _)
BigMulRange(a, m, lo, hi, c) ==
    IF lo = hi
    THEN LET t == a[lo] * m + c
         IN  [d |-> <<t % 10000>>, c |-> t \div 10000]
    ELSE LET mid == (lo + hi) \div 2
             low == BigMulRange(a, m, lo, mid, c)
             high == BigMulRange(a, m, mid + 1, hi, low.c)
         IN  [d |-> low.d \o high.d, c |-> high.c]

\* a * m for 0 <= m < 200000
BigMulSmall(a, m) ==
    IF m = 0 \/ a = <<>> THEN <<>>
    ELSE LET p == BigMulRange(a, m, 1, Len(a), 0)
         IN  p.d \o BigFromInt(p.c)

\* a * 10000^k
BigShift(a, k) == IF a = <<>> THEN <<>> ELSE [i \in 1 .. k |-> 0] \o a

\* the first position, from i downwards, where a and b differ (0 if none)
RECURSIVE BigDiffAt(_, _, _)
BigDiffAt(a, b, i) ==
    IF i = 0 THEN 0
    ELSE IF a[i] # b[i] THEN i
    ELSE BigDiffAt(a, b, i - 1)

BigLeq(a, b) ==
    IF Len(a) # Len(b) THEN Len(a) < Len(b)
    ELSE IF a = b THEN TRUE
    ELSE LET i == BigDiffAt(a, b, Len(a))
         IN  a[i] < b[i]

\* digits lo..hi of a - b - c: [d: the digits, c: the borrow out]
RECURSIVE BigSubRange(_, _, _, _, _)
BigSubRange(a, b, lo, hi, c) ==
    IF lo = hi
    THEN LET t == a[lo] - (IF lo <= Len(b) THEN b[lo] ELSE 0) - c
         IN  [d |-> <<t % 10000>>, c |-> IF t < 0 THEN 1 ELSE 0]
    ELSE LET mid == (lo + hi) \div 2
             low == BigSubRange(a, b, lo, mid, c)
             high == BigSubRange(a, b, mid + 1, hi, low.c)
         IN  [d |-> low.d \o high.d, c |-> high.c]

\* a - b for a >= b
BigSub(a, b) == IF a = <<>> THEN <<>> ELSE BigStrip(BigSubRange(a, b, 1, Len(a), 0).d)

\* acc * m ** n for n >= 0, the n multiplications split in halves
RECURSIVE BigPowFrom(_, _, _)
BigPowFrom(acc, m, n) ==
    IF n = 0 THEN acc
    ELSE IF n = 1 THEN BigMulSmall(acc, m)
    ELSE LET half == BigPowFrom(acc, m, n \div 2)
         IN  IF half = <<>> THEN <<>> ELSE BigPowFrom(half, m, n - (n \div 2))

\* m ** n for n >= 0
BigPow(m, n) == BigPowFrom(<<1>>, m, n)

\* An estimate of the quotient digit r / d, from the leading digits of r and d
\* (d <= r < 10000 * d).  BigQuotDigit corrects it, so its quality only decides
\* how many corrections are needed.
BigEstimate(r, d) ==
    LET ld == Len(d)
        at(x, i) == IF 1 <= i /\ i <= Len(x) THEN x[i] ELSE 0
        d2 == at(d, ld) * 10000 + at(d, ld - 1)
        s == IF d2 < 100000 THEN 1 ELSE IF d2 < 1000000 THEN 10
             ELSE IF d2 < 10000000 THEN 100 ELSE 1000
        dt == d2 \div s
        rt == at(r, ld + 1) * (100000000 \div s) + (at(r, ld) * 10000 + at(r, ld - 1)) \div s
    IN  Min(9999, rt \div dt)

\* from a digit q with q * d <= r up to the largest such digit
RECURSIVE BigDigitUp(_, _, _)
BigDigitUp(r, d, q) ==
    IF q < 9999 /\ BigLeq(BigMulSmall(d, q + 1), r) THEN BigDigitUp(r, d, q + 1) ELSE q

\* from a digit q down to the largest digit with q * d <= r
RECURSIVE BigDigitDown(_, _, _)
BigDigitDown(r, d, q) ==
    IF q = 0 \/ BigLeq(BigMulSmall(d, q), r) THEN q ELSE BigDigitDown(r, d, q - 1)

\* the largest digit q in 0..9999 with q * d <= r, for d > 0
BigQuotDigit(r, d) ==
    IF ~BigLeq(d, r) THEN 0
    ELSE LET est == BigEstimate(r, d)
         IN  IF BigLeq(BigMulSmall(d, est), r)
             THEN BigDigitUp(r, d, est)
             ELSE BigDigitDown(r, d, est - 1)

\* long division of r by d > 0 from digit position k down to 0, q the quotient
\* so far: [quot, rem]; the quotient must be below 10000^(k+1)
RECURSIVE BigDivFrom(_, _, _, _)
BigDivFrom(r, d, k, q) ==
    LET dk == BigShift(d, k)
        digit == BigQuotDigit(r, dk)
        rest == IF digit = 0 THEN r ELSE BigSub(r, BigMulSmall(dk, digit))
    IN  IF k = 0
        THEN [quot |-> 10000 * q + digit, rem |-> rest]
        ELSE BigDivFrom(rest, d, k - 1, 10000 * q + digit)

\* round(n / d) to an integer, ties to even, for big n >= 0 and d > 0
BigRoundHalfEven(n, d) ==
    LET qr == BigDivFrom(n, d, 2, 0)
        twice == BigMulSmall(qr.rem, 2)
    IN  IF twice = d THEN (IF qr.quot % 2 = 0 THEN qr.quot ELSE qr.quot + 1)
        ELSE IF BigLeq(twice, d) THEN qr.quot
        ELSE qr.quot + 1

(***************************************************************************)
(* LoanPricingTool (underwriting_tools.py) and RISK_TIERS (settings.py).   *)
(* Rates and adjustments are in eighths of a percent.                      *)
(***************************************************************************)
RISK_TIERS ==
    [ EXCELLENT |-> [min_score |-> 750, rate_adjustment |-> -12],
      GOOD      |-> [min_score |-> 700, rate_adjustment |-> -4],
      FAIR      |-> [min_score |-> 650, rate_adjustment |-> 8],
      POOR      |-> [min_score |-> 620, rate_adjustment |-> 20] ]

\* a lookup that prices a tier the table does not list as the worst listed tier
tier_adjustment_worst_if_unlisted(credit_tier) ==
    IF credit_tier \in DOMAIN RISK_TIERS THEN RISK_TIERS[credit_tier].rate_adjustment ELSE 20

\* RISK_TIERS.get(credit_tier, {}).get("rate_adjustment", 0)
tier_adjustment(credit_tier) ==
    IF credit_tier \in DOMAIN RISK_TIERS THEN RISK_TIERS[credit_tier].rate_adjustment ELSE 0

risk_adjustments == [LOW |-> -4, MODERATE |-> 4, HIGH |-> 12, VERY_HIGH |-> 24]

\* risk_adjustments.get(risk_level, 0)
risk_adjustment(risk_level) ==
    IF risk_level \in DOMAIN risk_adjustments THEN risk_adjustments[risk_level] ELSE 0

\* the rate without the floor
unfloored_rate(rate) == rate

\* the rate floored at 0
floor_at_zero(rate) == Max(rate, 0)

\* max(final_rate, 5.0)
floor_rate(rate) == Max(rate, 40)

final_rate(base_rate, credit_tier, risk_level) ==
    floor_rate(base_rate + tier_adjustment(credit_tier) + risk_adjustment(risk_level))

Sign(x) == IF x > 0 THEN 1 ELSE IF x < 0 THEN -1 ELSE 0

\* the straight-line payment for every rate
never_amortizes(rate) == FALSE

\* the branch taken at "if monthly_rate > 0" (monthly_rate = rate / 100 / 12)
uses_amortization(rate) == rate > 0

(***************************************************************************)
(* The unrounded amounts, as signed fractions of exact naturals.  With     *)
(* r = rate / 9600, A = 9600 + rate, m = |term_months| and                 *)
(* x = (1 + r) ** term_months = xn / xd, where (xn, xd) is (A^m, 9600^m)   *)
(* for a positive term and (9600^m, A^m) for a negative one:               *)
(*   monthly_payment = loan * (r * x) / (x - 1)                            *)
(*                   = loan * rate * xn / (9600 * (xn - xd))               *)
(*   monthly_payment - loan * r = loan * rate * xd / (9600 * (xn - xd))    *)
(* xn - xd has the sign of term_months and the magnitude A^m - 9600^m; den *)
(* is 9600 times that magnitude, and is zero exactly when x - 1 is.        *)
(***************************************************************************)
amortization(term_months, rate) ==
    LET m == Abs(term_months)
        powA == BigPow(9600 + rate, m)
        powB == BigPow(9600, m)
    IN  [ xn  |-> IF term_months > 0 THEN powA ELSE powB,
          xd  |-> IF term_months > 0 THEN powB ELSE powA,
          den |-> BigMulSmall(BigSub(powA, powB), 9600) ]

\* Whether the payment computation divides by zero: the amortization divides
\* by (1 + monthly_rate) ** term_months - 1, the straight-line branch by
\* term_months.  am is amortization(term_months, rate).
payment_divides_by_zero(am, term_months, rate) ==
    IF uses_amortization(rate) THEN am.den = <<>> ELSE term_months = 0

\* 100 * |loan_amount| * rate * a: the numerator of an amount in cents
BigCents(a, loan_amount, rate) ==
    BigMulSmall(BigMulSmall(BigMulSmall(a, Abs(loan_amount)), rate), 100)

\* round(monthly_payment, 2), in cents
monthly_payment_cents(am, loan_amount, term_months, rate) ==
    IF uses_amortization(rate)
    THEN Sign(loan_amount) * Sign(term_months)
         * BigRoundHalfEven(BigCents(am.xn, loan_amount, rate), am.den)
    ELSE RoundHalfEven(100 * loan_amount * Sign(term_months), Abs(term_months))

\* a repayment of the principal alone
repayment_without_interest(am, loan_amount, term_months, rate) == 100 * loan_amount

\* round(monthly_payment * term_months, 2), in cents
total_repayment_cents(am, loan_amount, term_months, rate) ==
    IF uses_amortization(rate)
    THEN Sign(loan_amount)
         * BigRoundHalfEven(BigMulSmall(BigCents(am.xn, loan_amount, rate), Abs(term_months)),
                            am.den)
    ELSE 100 * loan_amount

\* round(loan_amount * monthly_rate, 2), in cents
first_payment_interest_cents(loan_amount, rate) ==
    RoundHalfEven(100 * loan_amount * rate, 9600)

\* round(monthly_payment - loan_amount * monthly_rate, 2), in cents
first_payment_principal_cents(am, loan_amount, term_months, rate) ==
    IF uses_amortization(rate)
    THEN Sign(loan_amount) * Sign(term_months)
         * BigRoundHalfEven(BigCents(am.xd, loan_amount, rate), am.den)
    ELSE RoundHalfEven(loan_amount * Sign(term_months) * (9600 - rate * term_months),
                       96 * Abs(term_months))

ZeroDivisionError == [exception |-> "ZeroDivisionError"]

\* The offer, or the exception the call raises.  loan_amount is a whole number
\* of dollars, so round(total_repayment - loan_amount, 2) is the rounded
\* total_repayment less loan_amount.
LoanPricingTool_run(loan_amount, term_months, credit_tier, risk_level) ==
    LET base_rate == BASE_INTEREST_RATE
        rate == final_rate(base_rate, credit_tier, risk_level)
        am == amortization(term_months, rate)
        total == total_repayment_cents(am, loan_amount, term_months, rate)
    IN  IF payment_divides_by_zero(am, term_months, rate) THEN ZeroDivisionError
        ELSE
        [ loan_amount             |-> loan_amount,
          term_months             |-> term_months,
          interest_rate           |-> RoundHalfEven(100 * rate, 8),
          apr                     |-> RoundHalfEven(100 * rate, 8),
          monthly_payment         |-> monthly_payment_cents(am, loan_amount, term_months, rate),
          total_interest          |-> total - 100 * loan_amount,
          total_repayment         |-> total,
          rate_breakdown          |-> [ base_rate         |-> base_rate,
                                        credit_adjustment |-> tier_adjustment(credit_tier),
                                        risk_adjustment   |-> risk_adjustment(risk_level) ],
          first_payment_interest  |-> first_payment_interest_cents(loan_amount, rate),
          first_payment_principal |-> first_payment_principal_cents(am, loan_amount,
                                                                    term_months, rate) ]

(***************************************************************************)
(* The inputs explored.  The tools validate nothing, so values outside the *)
(* documented ranges are among them.                                       *)
(***************************************************************************)
CreditScores == {-1, 300, 619, 620, 649, 650, 679, 680, 699, 700, 749, 750, 850, 900}

BankruptcyCounts == {-2} \cup (0 .. MaxBankruptcies)

LatePaymentCounts == 0 .. MaxLatePayments

AnnualIncomes == {-12000, 0, 12000, 288000}

MonthlyDebts == {0, 360, 430, 500, 10321}

ProposedPayments == {0, 1, 70}

RiskCreditScores == {300, 619, 620, 650, 700, 750}

DtiRatios == {2000, 3000, 3600, 4300, 4301, 9000}

\* <<annual_income, loan_amount>>
IncomeAndLoan ==
    { <<40000, 10000>>, <<40000, 20000>>, <<40000, 30000>>, <<40000, 40000>>,
      <<1, 1000000>>, <<0, 10000>> }

YearsEmployed == {0, 10, 20, 50}

\* <<loan_amount, term_months>>
LoanAndTerm ==
    ({-5000, 0, 10000, 25000} \X {-12, 0, 1, 12}) \cup {<<10000, 36>>}

CreditTiers == {"EXCELLENT", "GOOD", "FAIR", "POOR", "SUBPRIME", "PRIME"}

RiskLevels == {"LOW", "MODERATE", "HIGH", "VERY_HIGH", "MEDIUM"}

(***************************************************************************)
(* The state machine: settings.py is imported, then the tools are invoked  *)
(* one call at a time; a tool keeps nothing between calls.                 *)
(***************************************************************************)
None == [tool |-> "none"]

\* between: whether a different call has returned since the kept one
NothingKept == [call |-> None, result |-> None, between |-> FALSE]

Init ==
    /\ pc = "import"
    /\ MIN_CREDIT_SCORE = Unbound
    /\ MAX_DTI_RATIO = Unbound
    /\ MIN_INCOME = Unbound
    /\ BASE_INTEREST_RATE = Unbound
    /\ call = None
    /\ result = None
    /\ earlier = NothingKept
    /\ running = {}
    /\ completed = <<>>
    /\ tool_uses = {}
    /\ financials = None
    /\ debt_to_income_ratio = None
    /\ dti_returned = None

CreditCheck ==
    /\ pc = "idle"
    /\ \E credit_score \in CreditScores, bankruptcies \in BankruptcyCounts,
          late_payments \in LatePaymentCounts :
        /\ call' = [ tool |-> "credit_check", credit_score |-> credit_score,
                     bankruptcies |-> bankruptcies, late_payments |-> late_payments ]
        /\ result' = CreditCheckTool_run(credit_score, bankruptcies, late_payments)
    /\ pc' = "returned"
    /\ UNCHANGED <<settings, earlier, crew, application>>

DTICalculator ==
    /\ pc = "idle"
    /\ \E annual_income \in AnnualIncomes, monthly_debt_payments \in MonthlyDebts,
          proposed_loan_payment \in ProposedPayments :
        /\ call' = [ tool |-> "dti_calculator", annual_income |-> annual_income,
                     monthly_debt_payments |-> monthly_debt_payments,
                     proposed_loan_payment |-> proposed_loan_payment ]
        /\ result' = DTICalculatorTool_run(annual_income, monthly_debt_payments,
                                           proposed_loan_payment)
    /\ pc' = "returned"
    /\ UNCHANGED <<settings, earlier, crew, application>>

RiskScoring ==
    /\ pc = "idle"
    /\ \E credit_score \in RiskCreditScores, dti_ratio \in DtiRatios,
          il \in IncomeAndLoan, years_employed \in YearsEmployed,
          bankruptcies \in BankruptcyCounts :
        /\ call' = [ tool |-> "risk_scoring", credit_score |-> credit_score,
                     dti_ratio |-> dti_ratio, annual_income |-> il[1],
                     years_employed |-> years_employed, bankruptcies |-> bankruptcies,
                     loan_amount |-> il[2] ]
        /\ result' = RiskScoringTool_run(credit_score, dti_ratio, il[1], years_employed,
                                         bankruptcies, il[2])
    /\ pc' = "returned"
    /\ UNCHANGED <<settings, earlier, crew, application>>

LoanPricing ==
    /\ pc = "idle"
    /\ \E lt \in LoanAndTerm, credit_tier \in CreditTiers, risk_level \in RiskLevels :
        /\ call' = [ tool |-> "loan_pricing", loan_amount |-> lt[1],
                     term_months |-> lt[2], credit_tier |-> credit_tier,
                     risk_level |-> risk_level ]
        /\ result' = LoanPricingTool_run(lt[1], lt[2], credit_tier, risk_level)
        /\ pc' = IF result' = ZeroDivisionError THEN "raised" ELSE "returned"
    /\ UNCHANGED <<settings, earlier, crew, application>>

\* the caller has the output (or the exception); the tool holds nothing
Return ==
    /\ pc \in {"returned", "raised"}
    /\ pc' = "idle"
    /\ call' = None
    /\ result' = None
    /\ earlier' = IF earlier.call # None /\ call # earlier.call
                  THEN [earlier EXCEPT !.between = TRUE]
                  ELSE earlier
    /\ UNCHANGED <<settings, crew, application>>

Next ==
    \/ LoadSettings
    \/ CreditCheck
    \/ DTICalculator
    \/ RiskScoring
    \/ LoanPricing
    \/ Return

Spec == Init /\ [][Next]_vars

(***************************************************************************)
(* The same program with a caller that keeps the output of one call, to    *)
(* compare it with what later calls return.                                *)
(***************************************************************************)
ObservedCalls ==
    { [ tool |-> "credit_check", credit_score |-> 619, bankruptcies |-> 1,
        late_payments |-> 3 ],
      [ tool |-> "credit_check", credit_score |-> 620, bankruptcies |-> 0,
        late_payments |-> 0 ],
      [ tool |-> "dti_calculator", annual_income |-> 12000,
        monthly_debt_payments |-> 430, proposed_loan_payment |-> 1 ],
      [ tool |-> "risk_scoring", credit_score |-> 700, dti_ratio |-> 3000,
        annual_income |-> 40000, years_employed |-> 20, bankruptcies |-> 0,
        loan_amount |-> 20000 ],
      [ tool |-> "loan_pricing", loan_amount |-> 10000, term_months |-> 12,
        credit_tier |-> "FAIR", risk_level |-> "HIGH" ] }

\* the call returns and its caller keeps the output
ReturnAndKeep ==
    /\ pc \in {"returned", "raised"}
    /\ earlier = NothingKept
    /\ call \in ObservedCalls
    /\ earlier' = [call |-> call, result |-> result, between |-> FALSE]
    /\ pc' = "idle"
    /\ call' = None
    /\ result' = None
    /\ UNCHANGED <<settings, crew, application>>

ReplayNext ==
    \/ LoadSettings
    \/ CreditCheck
    \/ DTICalculator
    \/ RiskScoring
    \/ LoanPricing
    \/ Return
    \/ ReturnAndKeep

ReplaySpec == Init /\ [][ReplayNext]_vars

(***************************************************************************)
(* The crew: six tasks, each given to one agent, run by the sequential     *)
(* process.  What an agent does within its task is up to the language      *)
(* model; the crew fixes which tools it holds and when its task runs.      *)
(***************************************************************************)
tasks ==
    << "intake_task", "verification_task", "credit_task", "risk_task",
       "underwriting_task", "offer_task" >>

context ==
    [ intake_task       |-> {},
      verification_task |-> {"intake_task"},
      credit_task       |-> {"intake_task", "verification_task"},
      risk_task         |-> {"intake_task", "credit_task"},
      underwriting_task |-> {"verification_task", "credit_task", "risk_task"},
      offer_task        |-> {"intake_task", "underwriting_task"} ]

agent ==
    [ intake_task       |-> "document_intake_agent",
      verification_task |-> "verification_agent",
      credit_task       |-> "credit_analyst_agent",
      risk_task         |-> "risk_assessor_agent",
      underwriting_task |-> "underwriter_agent",
      offer_task        |-> "offer_generator_agent" ]

tools ==
    [ document_intake_agent |-> {"application_loader"},
      verification_agent    |-> {"application_loader"},
      credit_analyst_agent  |-> {"credit_check", "dti_calculator"},
      risk_assessor_agent   |-> {"risk_scoring"},
      underwriter_agent     |-> {"risk_scoring"},
      offer_generator_agent |-> {"loan_pricing"} ]

Range(seq) == { seq[i] : i \in DOMAIN seq }

\* a process that starts any task that has not finished
starts_any_pending(task, done) == task \notin Range(done)

\* Process.sequential: the next task of the list
starts_next(task, done) ==
    /\ Len(done) < Len(tasks)
    /\ task = tasks[Len(done) + 1]

StartTask ==
    /\ pc = "idle"
    /\ running = {}
    /\ \E task \in Range(tasks) :
           /\ starts_next(task, completed)
           /\ running' = {task}
    /\ UNCHANGED <<pc, settings, call, result, earlier, completed, tool_uses, application>>

\* the agent of a running task invokes one of the tools it holds
UseTool ==
    /\ \E task \in running :
           \E tool \in tools[agent[task]] :
               tool_uses' = tool_uses \cup {<<task, tool>>}
    /\ UNCHANGED <<pc, settings, call, result, earlier, running, completed, application>>

CompleteTask ==
    /\ \E task \in running :
           /\ running' = running \ {task}
           /\ completed' = Append(completed, task)
    /\ UNCHANGED <<pc, settings, call, result, earlier, tool_uses, application>>

CrewNext ==
    \/ LoadSettings
    \/ StartTask
    \/ UseTool
    \/ CompleteTask

CrewSpec == Init /\ [][CrewNext]_vars

(***************************************************************************)
(* LoanApplication (models/loan_application.py): an application whose      *)
(* financials are assigned and whose calculate_dti is called, in any       *)
(* order.  None stands for Python's None, and for no application before    *)
(* the constructor has run.                                                *)
(***************************************************************************)
ApplicationIncomes == {-12000, 0, 12000, 24000}

ApplicationDebts == {0, 215, 430, 860}

FracEq(a, b) == a.num * b.den = b.num * a.den

\* x or 0: None and 0.0 are false
or_zero(x) == IF x = None THEN Frac(0, 1) ELSE IF x.num = 0 THEN Frac(0, 1) ELSE x

LoanApplication ==
    /\ financials = None
    /\ \E annual_income \in ApplicationIncomes, monthly_debt_payments \in ApplicationDebts :
           financials' = [ annual_income |-> annual_income,
                           monthly_debt_payments |-> monthly_debt_payments ]
    /\ debt_to_income_ratio' = None
    /\ dti_returned' = None
    /\ UNCHANGED <<pc, settings, call, result, earlier, crew>>

SetAnnualIncome ==
    /\ financials # None
    /\ \E annual_income \in ApplicationIncomes :
           financials' = [financials EXCEPT !.annual_income = annual_income]
    /\ dti_returned' = None
    /\ UNCHANGED <<pc, settings, call, result, earlier, crew, debt_to_income_ratio>>

SetMonthlyDebtPayments ==
    /\ financials # None
    /\ \E monthly_debt_payments \in ApplicationDebts :
           financials' = [financials EXCEPT !.monthly_debt_payments = monthly_debt_payments]
    /\ dti_returned' = None
    /\ UNCHANGED <<pc, settings, call, result, earlier, crew, debt_to_income_ratio>>

calculate_dti ==
    /\ financials # None
    /\ LET monthly_income == Frac(financials.annual_income, 12)
       IN  debt_to_income_ratio' =
               IF monthly_income.num > 0
               THEN Frac(12 * financials.monthly_debt_payments, financials.annual_income)
               ELSE debt_to_income_ratio
    /\ dti_returned' = or_zero(debt_to_income_ratio')
    /\ UNCHANGED <<pc, settings, call, result, earlier, crew, financials>>

ApplicationNext ==
    \/ LoanApplication
    \/ SetAnnualIncome
    \/ SetMonthlyDebtPayments
    \/ calculate_dti

ApplicationSpec == Init /\ [][ApplicationNext]_vars

(***************************************************************************)
(* The properties.  A call is "returned" when its tool has produced the    *)
(* result for the arguments in call.                                       *)
(***************************************************************************)
Returned(tool) == pc = "returned" /\ call.tool = tool

\* C1: the Risk Scorer's recommendation is decided in strict priority order:
\* credit_score below the minimum gives "DENY - Credit score below minimum";
\* otherwise dti_ratio above the maximum gives "DENY - DTI exceeds maximum";
\* only otherwise is it chosen from the total score (<= 35, <= 55, <= 75,
\* else).  No APPROVE or REFER is returned when a policy violation holds.
C1_RecommendationPriority ==
    Returned("risk_scoring") =>
        LET total == result.total_risk_score
            by_score == IF total <= 35 THEN "APPROVE - Strong application"
                        ELSE IF total <= 55 THEN "APPROVE WITH CONDITIONS"
                        ELSE IF total <= 75 THEN "REFER TO SENIOR UNDERWRITER"
                        ELSE "DENY - High risk"
        IN  /\ call.credit_score < MIN_CREDIT_SCORE
                => result.recommendation = "DENY - Credit score below minimum"
            /\ (call.credit_score >= MIN_CREDIT_SCORE /\ call.dti_ratio > MAX_DTI_RATIO)
                => result.recommendation = "DENY - DTI exceeds maximum"
            /\ (call.credit_score >= MIN_CREDIT_SCORE /\ call.dti_ratio <= MAX_DTI_RATIO)
                => result.recommendation = by_score
            /\ (call.credit_score < MIN_CREDIT_SCORE \/ call.dti_ratio > MAX_DTI_RATIO)
                => result.recommendation \notin
                       { "APPROVE - Strong application", "APPROVE WITH CONDITIONS",
                         "REFER TO SENIOR UNDERWRITER" }

\* C1 happens: a score low enough for the strongest approval, denied for the
\* credit score
C1_DeniedDespiteLowScore ==
    /\ Returned("risk_scoring")
    /\ call.credit_score < MIN_CREDIT_SCORE
    /\ result.total_risk_score <= 35
    /\ result.recommendation = "DENY - Credit score below minimum"

\* C2: for bankruptcies >= 0, total_risk_score is the minimum of 100 and the sum
\* of the five components, so it lies in 0..100; credit_score 300, dti_ratio
\* 0.9, annual_income 1, years_employed 0, bankruptcies 5, loan_amount 1000000
\* gives exactly 100 although the sum is larger.
C2_TotalRiskClamped ==
    (Returned("risk_scoring") /\ call.bankruptcies >= 0) =>
        LET c == result.components
            sum == c.credit_risk + c.dti_risk + c.income_risk + c.employment_risk
                   + c.bankruptcy_penalty
        IN  /\ result.total_risk_score = IF sum <= 100 THEN sum ELSE 100
            /\ result.total_risk_score \in 0 .. 100
            /\ ( /\ call.credit_score = 300
                 /\ call.dti_ratio = 9000
                 /\ call.annual_income = 1
                 /\ call.years_employed = 0
                 /\ call.bankruptcies = 5
                 /\ call.loan_amount = 1000000 )
                => (sum > 100 /\ result.total_risk_score = 100)

\* C2 happens: the example call, whose components sum to 130
C2_ClampedExample ==
    /\ Returned("risk_scoring")
    /\ call.credit_score = 300 /\ call.dti_ratio = 9000 /\ call.annual_income = 1
    /\ call.years_employed = 0 /\ call.bankruptcies = 5 /\ call.loan_amount = 1000000
    /\ result.components.credit_risk + result.components.dti_risk
       + result.components.income_risk + result.components.employment_risk
       + result.components.bankruptcy_penalty = 130
    /\ result.total_risk_score = 100

\* C3: for every integer credit_score, also outside 300..850, the Credit
\* Evaluator's tier is EXCELLENT from 750, GOOD from 700, FAIR from 650, POOR
\* from 620 and SUBPRIME below; 750 is EXCELLENT and 749 is GOOD.
C3_CreditTiers ==
    Returned("credit_check") =>
        LET score == call.credit_score
        IN  /\ score >= 750 => result.credit_tier = "EXCELLENT"
            /\ (700 <= score /\ score < 750) => result.credit_tier = "GOOD"
            /\ (650 <= score /\ score < 700) => result.credit_tier = "FAIR"
            /\ (620 <= score /\ score < 650) => result.credit_tier = "POOR"
            /\ score < 620 => result.credit_tier = "SUBPRIME"

\* C3 happens: a score on a lower boundary gets the higher tier
C3_BoundaryIsExcellent ==
    /\ Returned("credit_check")
    /\ call.credit_score = 750
    /\ result.credit_tier = "EXCELLENT"

\* C4: the Loan Pricer's rate is max(base_rate + tier adjustment + risk
\* adjustment, 5.0): a sum below 5.0 is reported as interest_rate and apr of
\* exactly 5.0, and the reported rate is never below 5.0.  (Rates are in
\* eighths of a percent, reported rates in hundredths.)
C4_RateFloor ==
    Returned("loan_pricing") =>
        LET b == result.rate_breakdown
            sum == b.base_rate + b.credit_adjustment + b.risk_adjustment
        IN  /\ b.base_rate = BASE_INTEREST_RATE
            /\ 8 * result.interest_rate = 100 * (IF sum >= 40 THEN sum ELSE 40)
            /\ result.apr = result.interest_rate
            /\ sum < 40 => result.interest_rate = 500
            /\ result.interest_rate >= 500

\* C4 happens: 6.5 - 1.5 - 0.5 = 4.5 is priced at 5.0
C4_FloorApplied ==
    /\ Returned("loan_pricing")
    /\ BASE_INTEREST_RATE = 52
    /\ call.credit_tier = "EXCELLENT" /\ call.risk_level = "LOW"
    /\ result.rate_breakdown.credit_adjustment = -12
    /\ result.rate_breakdown.risk_adjustment = -4
    /\ result.interest_rate = 500

\* C5, as stated: an invalid policy parameter (a negative maximum DTI ratio,
\* base interest rate or minimum credit score) is rejected when the
\* configuration is loaded, so no calculation call can run with it.
C5_InvalidConfigurationRejected ==
    pc \in {"idle", "returned", "raised"} =>
        /\ MAX_DTI_RATIO >= 0
        /\ BASE_INTEREST_RATE >= 0
        /\ MIN_CREDIT_SCORE >= 0

\* C6, as stated: for every term_months and loan_amount the Loan Pricer's
\* payment computation never divides by zero.
C6_NeverDividesByZero ==
    call.tool = "loan_pricing" => (pc # "raised" /\ result # ZeroDivisionError)

\* C7, as stated: for every annual_income <= 0 the DTI Calculator reports
\* current_dti = 0, proposed_dti = 0 and passes_dti_check = true.
C7_NoIncomePasses ==
    (Returned("dti_calculator") /\ call.annual_income <= 0) =>
        /\ result.current_dti = 0
        /\ result.proposed_dti = 0
        /\ result.passes_dti_check = TRUE

\* C8: for every annual_income > 0, passes_dti_check is true exactly when
\* (monthly_debt_payments + proposed_loan_payment) / (annual_income / 12) is at
\* most the configured maximum DTI ratio, inclusive, on the unrounded ratio.
\* (With the maximum in units of 1/10000 and annual_income > 0 the comparison
\* is 12 * (debt + payment) * 10000 <= maximum * annual_income.)
C8_DtiCheckOnUnroundedRatio ==
    (Returned("dti_calculator") /\ call.annual_income > 0) =>
        ( result.passes_dti_check
          <=> 120000 * (call.monthly_debt_payments + call.proposed_loan_payment)
              <= MAX_DTI_RATIO * call.annual_income )

\* C8 happens: a ratio above the maximum whose reported percentage equals the
\* maximum (0.43004... is reported as 43.0) fails the check
C8_ReportedAtMaximumFails ==
    /\ Returned("dti_calculator")
    /\ call.annual_income > 0
    /\ result.proposed_dti = result.max_allowed_dti
    /\ 120000 * (call.monthly_debt_payments + call.proposed_loan_payment)
       > MAX_DTI_RATIO * call.annual_income
    /\ result.passes_dti_check = FALSE

\* C9: for bankruptcies >= 0 the bankruptcy_penalty is min(bankruptcies * 15,
\* 30): 0 for none, 15 for one, 30 for two or more.
C9_BankruptcyPenalty ==
    (Returned("risk_scoring") /\ call.bankruptcies >= 0) =>
        result.components.bankruptcy_penalty =
            ( IF call.bankruptcies = 0 THEN 0
              ELSE IF call.bankruptcies = 1 THEN 15
              ELSE 30 )

\* C9 happens: three bankruptcies give 30, not 45
C9_ThreeBankruptcies ==
    /\ Returned("risk_scoring")
    /\ call.bankruptcies = 3
    /\ result.components.bankruptcy_penalty = 30

\* the example call of C10
PricingExample ==
    /\ Returned("loan_pricing")
    /\ BASE_INTEREST_RATE = 60
    /\ call.loan_amount = 10000 /\ call.term_months = 36
    /\ call.credit_tier = "GOOD" /\ call.risk_level = "LOW"

\* C10, as stated: for loan_amount 10000, term_months 36, credit_tier GOOD,
\* risk_level LOW and base rate 7.5 the Loan Pricer reports interest_rate 6.5
\* and, to within a cent, monthly_payment 306.96, total_repayment 11050.56 and
\* total_interest 1050.56.
C10_ExampleAsStated ==
    PricingExample =>
        /\ result.interest_rate = 650
        /\ Abs(result.monthly_payment - 30696) <= 1
        /\ Abs(result.total_repayment - 1105056) <= 1
        /\ Abs(result.total_interest - 105056) <= 1

\* C10, amended: for the same call the Loan Pricer reports interest_rate 6.5,
\* monthly_payment 306.49, total_repayment 11033.64 and total_interest 1033.64.
C10_ExampleAmounts ==
    PricingExample =>
        /\ result.interest_rate = 650
        /\ result.monthly_payment = 30649
        /\ result.total_repayment = 1103364
        /\ result.total_interest = 103364

\* C10 happens: the example call has been priced at 6.5 %
C10_ExamplePriced ==
    /\ PricingExample
    /\ result.rate_breakdown.credit_adjustment = -4
    /\ result.rate_breakdown.risk_adjustment = -4
    /\ result.term_months = 36

\* an offer for a loan_amount > 0 over term_months >= 1
OfferForPositiveLoan ==
    /\ Returned("loan_pricing")
    /\ call.loan_amount > 0
    /\ call.term_months >= 1

C14_RiskLevelBands ==
    Returned("risk_scoring") =>
        LET total == result.total_risk_score
        IN  result.risk_level = ( IF total <= 25 THEN "LOW"
                                  ELSE IF total <= 50 THEN "MODERATE"
                                  ELSE IF total <= 75 THEN "HIGH"
                                  ELSE "VERY_HIGH" )

\* C14 happens: a total on an upper bound is in the lower band
C14_TotalOnBound ==
    /\ Returned("risk_scoring")
    /\ result.total_risk_score = 25
    /\ result.risk_level = "LOW"

Position(task) == CHOOSE i \in DOMAIN tasks : tasks[i] = task

Holders(tool) == { task \in Range(tasks) : tool \in tools[agent[task]] }

\* C15: the six tasks run one at a time in the order intake, verification,
\* credit analysis, risk assessment, underwriting, offer generation; every
\* task's context lists only earlier tasks; the task holding credit_check and
\* dti_calculator has completed before a task holding risk_scoring runs, and
\* the only task holding loan_pricing runs after risk assessment has completed.
C15_SequentialPipeline ==
    /\ Cardinality(running) <= 1
    /\ Len(completed) <= Len(tasks)
    /\ completed = SubSeq(tasks, 1, Len(completed))
    /\ \A task \in running :
           /\ Len(completed) < Len(tasks)
           /\ task = tasks[Len(completed) + 1]
    /\ \A task \in Range(tasks) :
           \A before \in context[task] : Position(before) < Position(task)
    /\ Holders("credit_check") = {"credit_task"}
    /\ Holders("dti_calculator") = {"credit_task"}
    /\ Holders("loan_pricing") = {"offer_task"}
    /\ \A task \in running :
           /\ task \in Holders("risk_scoring") => "credit_task" \in Range(completed)
           /\ task \in Holders("loan_pricing") => "risk_task" \in Range(completed)
    /\ \A use \in tool_uses :
           /\ use[2] = "risk_scoring" => "credit_task" \in Range(completed)
           /\ use[2] = "loan_pricing" => "risk_task" \in Range(completed)

\* C15 happens: the crew has run all six tasks and every agent has used every
\* tool it holds
C15_PipelineCompleted ==
    /\ running = {}
    /\ completed = tasks
    /\ tool_uses = { <<task, tool>> \in Range(tasks) \X
                         { "application_loader", "credit_check", "dti_calculator",
                           "risk_scoring", "loan_pricing" } :
                       tool \in tools[agent[task]] }
    /\ Cardinality(tool_uses) = 7

\* the tiers the Credit Evaluator can emit, from best to worst
TiersBestToWorst == <<"EXCELLENT", "GOOD", "FAIR", "POOR", "SUBPRIME">>

\* C16, as stated: for every risk_level the rate the Loan Pricer assigns is
\* non-decreasing as the credit tier gets worse along EXCELLENT, GOOD, FAIR,
\* POOR, SUBPRIME.
C16_RateMonotoneInTier ==
    pc \in {"idle", "returned", "raised"} =>
        \A risk_level \in RiskLevels, better, worse \in 1 .. 5 :
            better < worse =>
                final_rate(BASE_INTEREST_RATE, TiersBestToWorst[better], risk_level)
                <= final_rate(BASE_INTEREST_RATE, TiersBestToWorst[worse], risk_level)

\* C17: the final rate is floored at 5.0, so monthly_rate is positive for every
\* input and every configured base rate: every call takes the amortization
\* branch, and an offer for a positive loan over a positive term carries
\* interest, which the straight-line payment loan_amount / term_months would not.
C17_AlwaysAmortized ==
    /\ (call.tool = "loan_pricing" /\ pc \in {"returned", "raised"}) =>
           uses_amortization(final_rate(BASE_INTEREST_RATE, call.credit_tier,
                                        call.risk_level))
    /\ Returned("loan_pricing") => result.interest_rate >= 500
    /\ OfferForPositiveLoan =>
           /\ result.total_interest > 0
           /\ result.monthly_payment * call.term_months > 100 * call.loan_amount

\* C17 happens: a negative base rate and adjustments that sum below zero, priced
\* at the floor and amortized
C17_NegativeSumAmortized ==
    /\ OfferForPositiveLoan
    /\ call.term_months > 1
    /\ result.rate_breakdown.base_rate + result.rate_breakdown.credit_adjustment
       + result.rate_breakdown.risk_adjustment < 0
    /\ result.interest_rate = 500
    /\ result.total_interest > 0

\* C18, as stated: for every configured maximum DTI ratio and every input,
\* passes_dti_check is false exactly when dti_assessment is the "Too high -
\* exceeds maximum threshold" label.
C18_VerdictMatchesBand ==
    Returned("dti_calculator") =>
        ( result.passes_dti_check = FALSE
          <=> result.dti_assessment = "Too high - exceeds maximum threshold" )

\* C19: for the same credit_score and the same configured minimum, the Credit
\* Evaluator's meets_minimum is false exactly when the Risk Scorer recommends
\* "DENY - Credit score below minimum"; with the default minimum 620 it is
\* false exactly when the tier is SUBPRIME and the credit_risk is 25.
C19_MinimumAgreesAcrossTools ==
    ( /\ Returned("risk_scoring")
      /\ earlier.call.tool = "credit_check"
      /\ earlier.call.credit_score = call.credit_score ) =>
        LET below == earlier.result.meets_minimum = FALSE
        IN  /\ below <=> result.recommendation = "DENY - Credit score below minimum"
            /\ MIN_CREDIT_SCORE = 620 =>
                   ( below <=> ( /\ earlier.result.credit_tier = "SUBPRIME"
                                 /\ result.components.credit_risk = 25 ) )

\* C19 happens: with the default minimum, a score of 619 the Credit Evaluator
\* found below the minimum is denied by the Risk Scorer
C19_BelowMinimumInBoth ==
    /\ Returned("risk_scoring")
    /\ MIN_CREDIT_SCORE = 620
    /\ earlier.call.tool = "credit_check"
    /\ earlier.call.credit_score = call.credit_score
    /\ earlier.result.meets_minimum = FALSE
    /\ earlier.result.credit_tier = "SUBPRIME"
    /\ result.components.credit_risk = 25
    /\ result.recommendation = "DENY - Credit score below minimum"

\* C20: risk_level is VERY_HIGH exactly when approval_likelihood is "Very Low
\* (<25%)"; when risk_level is VERY_HIGH the recommendation is one of the three
\* DENY strings; "DENY - High risk" is returned only when risk_level is
\* VERY_HIGH.
C20_TopBandAgrees ==
    Returned("risk_scoring") =>
        /\ result.risk_level = "VERY_HIGH"
               <=> result.approval_likelihood = "Very Low (<25%)"
        /\ result.risk_level = "VERY_HIGH" =>
               result.recommendation \in { "DENY - Credit score below minimum",
                                           "DENY - DTI exceeds maximum",
                                           "DENY - High risk" }
        /\ result.recommendation = "DENY - High risk" => result.risk_level = "VERY_HIGH"

\* C20 happens: a total above 75 with no policy violation is denied for its risk
C20_DeniedForHighRisk ==
    /\ Returned("risk_scoring")
    /\ result.risk_level = "VERY_HIGH"
    /\ result.approval_likelihood = "Very Low (<25%)"
    /\ result.recommendation = "DENY - High risk"

\* C21, as stated: after any sequence of updates to a LoanApplication's
\* financials interleaved with calls to calculate_dti, each call returns the
\* ratio for the current field values, monthly_debt_payments / (annual_income
\* / 12) when annual_income > 0 and 0 when annual_income <= 0, never a ratio
\* stored by an earlier call; and it agrees with the DTI Calculator's unrounded
\* current_dti for the same income and debts.
C21_ReturnsCurrentRatio ==
    dti_returned # None =>
        LET annual_income == financials.annual_income
            monthly_debt_payments == financials.monthly_debt_payments
        IN  /\ FracEq(dti_returned,
                      IF annual_income > 0
                      THEN Frac(12 * monthly_debt_payments, annual_income)
                      ELSE Frac(0, 1))
            /\ FracEq(dti_returned, current_dti(annual_income, monthly_debt_payments))

=============================================================================
